---- MODULE Spec2Model ----
(***************************************************************************)
(* Model of rassumfrassum's LspLogic (src/rassumfrassum/frassum.py) and    *)
(* of the merge helpers of src/rassumfrassum/util.py.                      *)
(*                                                                         *)
(* JSON values are tagged one-field records, so that values of different   *)
(* Python types are always comparable:                                     *)
(*   None -> [null |-> TRUE]    bool -> [bool |-> b]    int -> [int |-> n] *)
(*   str  -> [str |-> s]        dict -> [obj |-> f]     list -> [list |-> q]*)
(* A Python dict held directly by the program (params, payload, caps, the  *)
(* tables of LspLogic) is a TLA+ function whose domain is its key set.     *)
(* A Server object is an identity in Servers; its fields live in the       *)
(* variables name, caps and cookie.                                        *)
(***************************************************************************)
EXTENDS Integers, Sequences, FiniteSets, TLC

VARIABLES
    document_versions,     \* LspLogic.document_versions: uri -> version
    data_cookies,          \* LspLogic.data_cookies: cookie id -> DataCookie
    data_cookie_counter,   \* LspLogic._data_cookie_counter
    name,                  \* Server.name, per server
    caps,                  \* Server.caps, per server
    cookie,                \* Server.cookie, per server
    aggregate,             \* the aggregate the scheduler is building
    agg_method,            \* the method the aggregate belongs to
    agg_count,             \* how many contributions were merged into it
    stash_log,             \* the tokens handed out in replies (history)
    ret                    \* the last call: its arguments and what it returned

vars == <<document_versions, data_cookies, data_cookie_counter, name, caps,
          cookie, aggregate, agg_method, agg_count, stash_log, ret>>

----------------------------------------------------------------------------
(* Bounds *)

NumServers == 2
MaxVersion == 2
MaxCookies == 2
MaxMerges == 2

----------------------------------------------------------------------------
(* JSON values and the Python operations the code applies to them *)

JNull == [null |-> TRUE]
JBool(b) == [bool |-> b]
JInt(n) == [int |-> n]
JStr(s) == [str |-> s]
JObj(f) == [obj |-> f]
JList(q) == [list |-> q]

EmptyDict == <<>>

IsNone(v) == DOMAIN v = {"null"}
IsBool(v) == DOMAIN v = {"bool"}
IsInt(v) == DOMAIN v = {"int"}
IsStr(v) == DOMAIN v = {"str"}
IsDict(v) == DOMAIN v = {"obj"}
IsList(v) == DOMAIN v = {"list"}

\* Python truth value of a JSON value
Truthy(v) ==
    IF IsNone(v) THEN FALSE
    ELSE IF IsBool(v) THEN v.bool
    ELSE IF IsInt(v) THEN v.int # 0
    ELSE IF IsStr(v) THEN v.str # ""
    ELSE IF IsDict(v) THEN DOMAIN v.obj # {}
    ELSE Len(v.list) > 0

\* d.get(k, default) on a Python dict
GetOr(d, k, default) == IF k \in DOMAIN d THEN d[k] ELSE default

\* d.get(k)
Get(d, k) == GetOr(d, k, JNull)

\* d[k] = v on a Python dict
Put(d, k, v) == [x \in DOMAIN d \cup {k} |-> IF x = k THEN v ELSE d[x]]

\* d.pop(k, None)
Pop(d, k) == [x \in DOMAIN d \ {k} |-> d[x]]

\* s.startswith(p) and s.endswith(p) on Python strings
StartsWith(s, p) == Len(s) >= Len(p) /\ SubSeq(s, 1, Len(p)) = p
EndsWith(s, p) == Len(s) >= Len(p) /\ SubSeq(s, Len(s) - Len(p) + 1, Len(s)) = p

is_scalar(v) == ~(IsDict(v) \/ IsList(v))

----------------------------------------------------------------------------
(* The servers of a session *)

Servers == 1 .. NumServers
primary_server == 1

----------------------------------------------------------------------------
(* on_client_notification: document version tracking *)

Uris == {"a.py", "b.py"}
Versions == 0 .. MaxVersion

NotifMethods ==
    {"textDocument/didOpen", "textDocument/didChange",
     "textDocument/didClose", "textDocument/didSave"}

\* textDocument objects: uri and version each present or absent
TextDocs ==
    {EmptyDict}
    \cup {[uri |-> JStr(u)] : u \in Uris}
    \cup {[version |-> JInt(v)] : v \in Versions}
    \cup {[uri |-> JStr(u), version |-> JInt(v)] : u \in Uris, v \in Versions}

NotifParams == {EmptyDict} \cup {[textDocument |-> JObj(td)] : td \in TextDocs}

\* As on_client_notification, but a tracked version is never lowered
on_client_notification_monotonic(dv, method, params) ==
    LET text_doc == GetOr(params, "textDocument", JObj(EmptyDict)).obj
        uri == Get(text_doc, "uri")
        version == Get(text_doc, "version")
    IN  IF method \in {"textDocument/didOpen", "textDocument/didChange"}
        THEN IF ~IsNone(uri) /\ ~IsNone(version)
                /\ (uri.str \in DOMAIN dv => dv[uri.str].int <= version.int)
             THEN Put(dv, uri.str, version)
             ELSE dv
        ELSE IF method = "textDocument/didClose"
        THEN IF ~IsNone(uri) THEN Pop(dv, uri.str) ELSE dv
        ELSE dv

\* The document_versions table after on_client_notification(method, params)
on_client_notification(dv, method, params) ==
    LET text_doc == GetOr(params, "textDocument", JObj(EmptyDict)).obj
        uri == Get(text_doc, "uri")
        version == Get(text_doc, "version")
    IN  IF method \in {"textDocument/didOpen", "textDocument/didChange"}
        THEN IF ~IsNone(uri) /\ ~IsNone(version)
             THEN Put(dv, uri.str, version)
             ELSE dv
        ELSE IF method = "textDocument/didClose"
        THEN IF ~IsNone(uri) THEN Pop(dv, uri.str) ELSE dv
        ELSE dv

----------------------------------------------------------------------------
(* get_notif_aggregation_key *)

Drop == <<"drop">>
NoKey == <<"None">>

\* `version or 0`
OrZero(version) == IF Truthy(version) THEN version ELSE JInt(0)

get_notif_aggregation_key_nodrop(dv, method, payload) ==
    IF method = "textDocument/publishDiagnostics"
    THEN LET uri == GetOr(payload, "uri", JStr(""))
             version == Get(payload, "version")
         IN  IF uri.str \in DOMAIN dv /\ IsNone(version)
             THEN <<"notification", method, uri, OrZero(dv[uri.str])>>
             ELSE <<"notification", method, uri, OrZero(version)>>
    ELSE NoKey

get_notif_aggregation_key_untracked(dv, method, payload) ==
    IF method = "textDocument/publishDiagnostics"
    THEN LET uri == GetOr(payload, "uri", JStr(""))
             version == Get(payload, "version")
         IN  IF uri.str \in DOMAIN dv /\ ~IsNone(version)
                /\ version.int < dv[uri.str].int
             THEN Drop
             ELSE <<"notification", method, uri, OrZero(version)>>
    ELSE NoKey

\* As get_notif_aggregation_key, but the key leaves the version out
get_notif_aggregation_key_no_version(dv, method, payload) ==
    IF method = "textDocument/publishDiagnostics"
    THEN LET uri == GetOr(payload, "uri", JStr(""))
             version == Get(payload, "version")
         IN  IF /\ uri.str \in DOMAIN dv
                /\ ~IsNone(version)
                /\ version.int < dv[uri.str].int
             THEN Drop
             ELSE <<"notification", method, uri, JInt(0)>>
    ELSE NoKey

get_notif_aggregation_key(dv, method, payload) ==
    IF method = "textDocument/publishDiagnostics"
    THEN LET uri == GetOr(payload, "uri", JStr(""))
             version == Get(payload, "version")
         IN  IF uri.str \in DOMAIN dv
             THEN LET tracked_version == dv[uri.str]
                  IN  IF IsNone(version)
                      THEN <<"notification", method, uri, OrZero(tracked_version)>>
                      ELSE IF version.int < tracked_version.int
                      THEN Drop
                      ELSE <<"notification", method, uri, OrZero(version)>>
             ELSE <<"notification", method, uri, OrZero(version)>>
    ELSE NoKey

KeyMethods == {"textDocument/publishDiagnostics", "window/logMessage"}

\* publishDiagnostics payloads: uri and version each present or absent
DiagKeyPayloads ==
    {EmptyDict}
    \cup {[uri |-> JStr(u)] : u \in Uris}
    \cup {[version |-> JInt(v)] : v \in Versions}
    \cup {[uri |-> JStr(u), version |-> JInt(v)] : u \in Uris, v \in Versions}

----------------------------------------------------------------------------
(* _stash_data_maybe and on_server_response *)

CookiePrefix == "rassumfrassum-"

\* f"rassumfrassum-{n}"
CookieId(n) == CookiePrefix \o ToString(n)

DataCookie(data, server) == [data |-> data, server |-> server]

\* The session state touched by on_server_response, threaded through the loop
\* over the items of a codeAction reply: the cookie table, its counter and the
\* (mutated) items processed so far.
StashState(cookies, counter, items) ==
    [cookies |-> cookies, counter |-> counter, items |-> items]

HasData(payload) ==
    /\ Truthy(payload)
    /\ IsDict(payload)
    /\ "data" \in DOMAIN payload.obj

stash_data_maybe_reuse(st, payload, server) ==
    IF ~HasData(payload)
    THEN StashState(st.cookies, st.counter, Append(st.items, payload))
    ELSE LET cookie_id == CookieId(1)
         IN  StashState(Put(st.cookies, cookie_id, DataCookie(payload.obj["data"], server)),
                        1,
                        Append(st.items, JObj(Put(payload.obj, "data", JStr(cookie_id)))))

stash_data_maybe(st, payload, server) ==
    IF ~HasData(payload)
    THEN StashState(st.cookies, st.counter, Append(st.items, payload))
    ELSE LET counter == st.counter + 1
             cookie_id == CookieId(counter)
         IN  StashState(Put(st.cookies, cookie_id, DataCookie(payload.obj["data"], server)),
                        counter,
                        Append(st.items, JObj(Put(payload.obj, "data", JStr(cookie_id)))))

\* for action in response_payload: self._stash_data_maybe(action, server)
RECURSIVE StashAll(_, _, _)
StashAll(st, actions, server) ==
    IF actions = <<>> THEN st
    ELSE StashAll(stash_data_maybe(st, Head(actions), server), Tail(actions), server)

\* What on_server_response leaves behind: the cookie table and counter, the
\* (mutated) response payload, and the name and caps of `server`.
ResponseEffect(cookies, counter, payload, nm, cp) ==
    [cookies |-> cookies, counter |-> counter, payload |-> payload,
     name |-> nm, caps |-> cp]

\* As on_server_response, but an error reply is post-processed like any other
on_server_response_ignore_error(cookies, counter, nm, cp, method, response_payload, is_error, server) ==
    IF ~Truthy(response_payload)
    THEN ResponseEffect(cookies, counter, response_payload, nm, cp)
    ELSE IF method = "textDocument/codeAction"
    THEN LET st == StashAll(StashState(cookies, counter, <<>>),
                            response_payload.list, server)
         IN  ResponseEffect(st.cookies, st.counter, JList(st.items), nm, cp)
    ELSE IF method = "initialize"
    THEN LET info == GetOr(response_payload.obj, "serverInfo", JObj(EmptyDict)).obj
             c == Get(response_payload.obj, "capabilities")
         IN  ResponseEffect(cookies, counter, response_payload,
                            IF "name" \in DOMAIN info THEN info["name"].str ELSE nm,
                            IF Truthy(c) THEN c.obj ELSE EmptyDict)
    ELSE ResponseEffect(cookies, counter, response_payload, nm, cp)

\* As on_server_response, but an initialize reply updates the capability map
\* key by key and keeps the keys the reply does not name
on_server_response_merge_caps(cookies, counter, nm, cp, method, response_payload, is_error, server) ==
    IF ~Truthy(response_payload) \/ is_error
    THEN ResponseEffect(cookies, counter, response_payload, nm, cp)
    ELSE IF method = "textDocument/codeAction"
    THEN LET st == StashAll(StashState(cookies, counter, <<>>),
                            response_payload.list, server)
         IN  ResponseEffect(st.cookies, st.counter, JList(st.items), nm, cp)
    ELSE IF method = "initialize"
    THEN LET info == GetOr(response_payload.obj, "serverInfo", JObj(EmptyDict)).obj
             c == Get(response_payload.obj, "capabilities")
             new == IF Truthy(c) THEN c.obj ELSE EmptyDict
         IN  ResponseEffect(cookies, counter, response_payload,
                            IF "name" \in DOMAIN info THEN info["name"].str ELSE nm,
                            [k \in DOMAIN cp \cup DOMAIN new |->
                                IF k \in DOMAIN new THEN new[k] ELSE cp[k]])
    ELSE ResponseEffect(cookies, counter, response_payload, nm, cp)

on_server_response(cookies, counter, nm, cp, method, response_payload, is_error, server) ==
    IF ~Truthy(response_payload) \/ is_error
    THEN ResponseEffect(cookies, counter, response_payload, nm, cp)
    ELSE IF method = "textDocument/codeAction"
    THEN LET st == StashAll(StashState(cookies, counter, <<>>),
                            response_payload.list, server)
         IN  ResponseEffect(st.cookies, st.counter, JList(st.items), nm, cp)
    ELSE IF method = "initialize"
    THEN LET info == GetOr(response_payload.obj, "serverInfo", JObj(EmptyDict)).obj
             c == Get(response_payload.obj, "capabilities")
         IN  ResponseEffect(cookies, counter, response_payload,
                            IF "name" \in DOMAIN info THEN info["name"].str ELSE nm,
                            IF Truthy(c) THEN c.obj ELSE EmptyDict)
    ELSE ResponseEffect(cookies, counter, response_payload, nm, cp)

----------------------------------------------------------------------------
(* servers_to_route_to *)

SingleTargetCaps ==
    [x \in {"textDocument/rename", "textDocument/formatting",
            "textDocument/rangeFormatting"} |->
        IF x = "textDocument/rename" THEN "renameProvider"
        ELSE IF x = "textDocument/formatting" THEN "documentFormattingProvider"
        ELSE "documentRangeFormattingProvider"]

\* [s for s in servers if s.caps.get(cap)]
Supporting(cp, servers, cap) ==
    SelectSeq(servers, LAMBDA s : Truthy(Get(cp[s], cap)))

\* What servers_to_route_to returns, and the params as it leaves them
Routing(result, params) == [result |-> result, params |-> params]

RouteByMethod_always_primary(cp, method, params, servers) ==
    IF method \in {"initialize", "shutdown"}
    THEN Routing(servers, params)
    ELSE IF method = "textDocument/codeAction"
    THEN Routing(Supporting(cp, servers, "codeActionProvider"), params)
    ELSE IF method \in DOMAIN SingleTargetCaps
    THEN LET q == Supporting(cp, servers, SingleTargetCaps[method])
         IN  Routing(IF q = <<>> THEN <<>> ELSE <<Head(q)>>, params)
    ELSE Routing(<<primary_server>>, params)

RouteByMethod_last(cp, method, params, servers) ==
    IF method \in {"initialize", "shutdown"}
    THEN Routing(servers, params)
    ELSE IF method = "textDocument/codeAction"
    THEN Routing(Supporting(cp, servers, "codeActionProvider"), params)
    ELSE IF method \in DOMAIN SingleTargetCaps
    THEN LET q == Supporting(cp, servers, SingleTargetCaps[method])
         IN  Routing(IF q = <<>> THEN <<>> ELSE <<q[Len(q)]>>, params)
    ELSE Routing(IF servers # <<>> THEN <<primary_server>> ELSE <<>>, params)

\* As RouteByMethod, but the default route is every candidate
RouteByMethod_broadcast(cp, method, params, servers) ==
    IF method \in {"initialize", "shutdown"}
    THEN Routing(servers, params)
    ELSE IF method = "textDocument/codeAction"
    THEN Routing(Supporting(cp, servers, "codeActionProvider"), params)
    ELSE IF method \in DOMAIN SingleTargetCaps
    THEN LET q == Supporting(cp, servers, SingleTargetCaps[method])
         IN  Routing(IF q = <<>> THEN <<>> ELSE <<Head(q)>>, params)
    ELSE Routing(servers, params)

\* The rules after cookie recovery
RouteByMethod(cp, method, params, servers) ==
    IF method \in {"initialize", "shutdown"}
    THEN Routing(servers, params)
    ELSE IF method = "textDocument/codeAction"
    THEN Routing(Supporting(cp, servers, "codeActionProvider"), params)
    ELSE IF method \in DOMAIN SingleTargetCaps
    THEN LET q == Supporting(cp, servers, SingleTargetCaps[method])
         IN  Routing(IF q = <<>> THEN <<>> ELSE <<Head(q)>>, params)
    ELSE Routing(IF servers # <<>> THEN <<primary_server>> ELSE <<>>, params)

\* data = params.get('data') if params and method.endswith("resolve") else None
ResolveData(method, params) ==
    IF Truthy(params) /\ EndsWith(method, "resolve")
    THEN Get(params.obj, "data")
    ELSE JNull

servers_to_route_to_primary(dv, cookies, cp, method, params, servers) ==
    LET data == ResolveData(method, params)
    IN  IF /\ IsStr(data)
           /\ StartsWith(data.str, CookiePrefix)
           /\ data.str \in DOMAIN cookies
        THEN Routing(<<primary_server>>,
                     JObj(Put(params.obj, "data", cookies[data.str].data)))
        ELSE RouteByMethod(cp, method, params, servers)

servers_to_route_to_strict(dv, cookies, cp, method, params, servers) ==
    LET data == ResolveData(method, params)
    IN  IF IsStr(data) /\ StartsWith(data.str, CookiePrefix)
        THEN IF data.str \in DOMAIN cookies
             THEN Routing(<<cookies[data.str].server>>,
                          JObj(Put(params.obj, "data", cookies[data.str].data)))
             ELSE Routing(<<>>, params)
        ELSE RouteByMethod(cp, method, params, servers)

\* As servers_to_route_to, but a request is held back while a document is open
servers_to_route_to_gated(dv, cookies, cp, method, params, servers) ==
    LET data == ResolveData(method, params)
    IN  IF dv # EmptyDict
        THEN Routing(<<>>, params)
        ELSE IF /\ IsStr(data)
                /\ StartsWith(data.str, CookiePrefix)
                /\ data.str \in DOMAIN cookies
        THEN Routing(<<cookies[data.str].server>>,
                     JObj(Put(params.obj, "data", cookies[data.str].data)))
        ELSE RouteByMethod(cp, method, params, servers)

\* dv, cookies and cp are what the method can read of the session: the
\* document version table, the cookie table and the servers' capabilities
servers_to_route_to(dv, cookies, cp, method, params, servers) ==
    LET data == ResolveData(method, params)
    IN  IF /\ IsStr(data)
           /\ StartsWith(data.str, CookiePrefix)
           /\ data.str \in DOMAIN cookies
        THEN Routing(<<cookies[data.str].server>>,
                     JObj(Put(params.obj, "data", cookies[data.str].data)))
        ELSE RouteByMethod(cp, method, params, servers)

----------------------------------------------------------------------------
(* util.dmerge and _merge_initialize_payloads *)

\* dmerge(d1, d2) on two Python dicts
RECURSIVE dmerge(_, _)
dmerge(d1, d2) ==
    [key \in DOMAIN d1 \cup DOMAIN d2 |->
        IF key \notin DOMAIN d2 THEN d1[key]
        ELSE IF key \notin DOMAIN d1 THEN d2[key]
        ELSE LET v1 == d1[key]
                 v2 == d2[key]
             IN  IF IsDict(v1) /\ IsDict(v2) THEN JObj(dmerge(v1.obj, v2.obj))
                 ELSE IF IsList(v1) /\ IsList(v2) THEN JList(v1.list \o v2.list)
                 ELSE IF is_scalar(v1) /\ ~is_scalar(v2) THEN v2
                 ELSE v1]

\* x == 1 in Python (True == 1 holds there)
EqualsOne(x) == x = JInt(1) \/ x = JBool(TRUE)

t1sync(x) == EqualsOne(x) \/ (IsDict(x) /\ EqualsOne(Get(x.obj, "change")))

MergeCap_no_full_sync(cap, cur, newval) ==
    IF IsNone(cur) THEN newval
    ELSE IF is_scalar(cur) /\ ~is_scalar(newval) THEN newval
    ELSE IF IsDict(cur) /\ IsDict(newval) /\ cap # "semanticTokensProvider"
    THEN JObj(dmerge(cur.obj, newval.obj))
    ELSE cur

MergeCap_no_adopt(cap, cur, newval) ==
    IF cap = "textDocumentSync" /\ t1sync(newval) THEN newval
    ELSE IF ~IsNone(cur) /\ is_scalar(cur) /\ ~is_scalar(newval) THEN newval
    ELSE IF IsDict(cur) /\ IsDict(newval) /\ cap # "semanticTokensProvider"
    THEN JObj(dmerge(cur.obj, newval.obj))
    ELSE cur

MergeCap_falsy(cap, cur, newval) ==
    IF ~Truthy(cur) THEN newval
    ELSE IF cap = "textDocumentSync" /\ t1sync(newval) THEN newval
    ELSE IF is_scalar(cur) /\ ~is_scalar(newval) THEN newval
    ELSE IF IsDict(cur) /\ IsDict(newval) /\ cap # "semanticTokensProvider"
    THEN JObj(dmerge(cur.obj, newval.obj))
    ELSE cur

\* The value res[cap] holds after the loop body ran for (cap, newval);
\* cur is res.get(cap)
MergeCap(cap, cur, newval) ==
    IF IsNone(cur) THEN newval
    ELSE IF cap = "textDocumentSync" /\ t1sync(newval) THEN newval
    ELSE IF is_scalar(newval) /\ IsNone(cur) THEN newval
    ELSE IF is_scalar(cur) /\ ~is_scalar(newval) THEN newval
    ELSE IF IsDict(cur) /\ IsDict(newval) /\ cap # "semanticTokensProvider"
    THEN JObj(dmerge(cur.obj, newval.obj))
    ELSE cur

\* res after `for cap, newval in new.items()`
MergeCaps(res, new) ==
    [cap \in DOMAIN res \cup DOMAIN new |->
        IF cap \in DOMAIN new THEN MergeCap(cap, Get(res, cap), new[cap])
        ELSE res[cap]]

\* source == self.primary_server: Server is a dataclass, whose generated
\* __eq__ compares the fields (name, caps, cookie)
server_eq(nm, cp, ck, a, b) == nm[a] = nm[b] /\ cp[a] = cp[b] /\ ck[a] = ck[b]

merge_field(agg, s_info, field, s, primary_payload) ==
    LET merged_info == GetOr(agg, "serverInfo", JObj(EmptyDict)).obj
        cur == GetOr(merged_info, field, JStr(""))
        new == GetOr(s_info, field, JStr(""))
    IN  IF ~(Truthy(cur) /\ Truthy(new))
        THEN (IF Truthy(new) THEN new ELSE cur)
        ELSE IF primary_payload
        THEN JStr(new.str \o s \o cur.str)
        ELSE JStr(cur.str \o s \o new.str)

\* agg and payload are Python dicts; the result is the mutated aggregate
merge_initialize_payloads(agg, payload, primary_payload) ==
    LET res == GetOr(agg, "capabilities", JObj(EmptyDict)).obj
        new == GetOr(payload, "capabilities", JObj(EmptyDict)).obj
        agg1 == Put(agg, "capabilities", JObj(MergeCaps(res, new)))
        s_info == GetOr(payload, "serverInfo", JObj(EmptyDict))
    IN  IF Truthy(s_info)
        THEN Put(agg1, "serverInfo",
                 JObj([name |-> merge_field(agg1, s_info.obj, "name", "+", primary_payload),
                       version |-> merge_field(agg1, s_info.obj, "version", ",", primary_payload)]))
        ELSE agg1

----------------------------------------------------------------------------
(* aggregate_payloads *)

TagDiagnostics_overwrite(diags, source_name) ==
    [i \in 1 .. Len(diags) |-> JObj(Put(diags[i].obj, "source", JStr(source_name)))]

\* for diag in diags: if 'source' not in diag: diag['source'] = source.name
TagDiagnostics(diags, source_name) ==
    [i \in 1 .. Len(diags) |->
        IF "source" \in DOMAIN diags[i].obj THEN diags[i]
        ELSE JObj(Put(diags[i].obj, "source", JStr(source_name)))]

\* The params on_server_notification leaves behind (params is a Python dict)
on_server_notification(method, params, source_name) ==
    IF method = "textDocument/publishDiagnostics" /\ "diagnostics" \in DOMAIN params
    THEN Put(params, "diagnostics",
             JList(TagDiagnostics(params["diagnostics"].list, source_name)))
    ELSE params

\* `x or []`
OrEmptyList(x) == IF Truthy(x) THEN x.list ELSE <<>>

aggregate_payloads_merge_errors(nm, cp, ck, method, agg, payload, source, is_error) ==
    IF method = "textDocument/publishDiagnostics"
    THEN LET current_diags == GetOr(agg.obj, "diagnostics", JList(<<>>)).list
             new_diags == GetOr(payload.obj, "diagnostics", JList(<<>>)).list
         IN  JObj(Put(agg.obj, "diagnostics",
                      JList(current_diags \o TagDiagnostics(new_diags, nm[source]))))
    ELSE IF method = "textDocument/codeAction"
    THEN JList(OrEmptyList(agg) \o OrEmptyList(payload))
    ELSE IF method = "initialize"
    THEN JObj(merge_initialize_payloads(agg.obj, payload.obj,
                                        server_eq(nm, cp, ck, source, primary_server)))
    ELSE agg

\* The aggregate aggregate_payloads returns
aggregate_payloads(nm, cp, ck, method, agg, payload, source, is_error) ==
    IF is_error THEN agg
    ELSE IF method = "textDocument/publishDiagnostics"
    THEN LET current_diags == GetOr(agg.obj, "diagnostics", JList(<<>>)).list
             new_diags == GetOr(payload.obj, "diagnostics", JList(<<>>)).list
         IN  JObj(Put(agg.obj, "diagnostics",
                      JList(current_diags \o TagDiagnostics(new_diags, nm[source]))))
    ELSE IF method = "textDocument/codeAction"
    THEN JList(OrEmptyList(agg) \o OrEmptyList(payload))
    ELSE IF method = "initialize"
    THEN JObj(merge_initialize_payloads(agg.obj, payload.obj,
                                        server_eq(nm, cp, ck, source, primary_server)))
    ELSE agg

----------------------------------------------------------------------------
(* State shared by the specifications *)

InitServers ==
    /\ name = [s \in Servers |-> "s" \o ToString(s)]
    /\ caps = [s \in Servers |-> EmptyDict]
    /\ cookie = [s \in Servers |-> "None"]

InitLogic ==
    /\ document_versions = EmptyDict
    /\ data_cookies = EmptyDict
    /\ data_cookie_counter = 0
    /\ stash_log = <<>>

InitAggregate ==
    /\ aggregate = JNull
    /\ agg_method = "none"
    /\ agg_count = 0

----------------------------------------------------------------------------
(* SpecNotif: client notifications and aggregation keys *)

ClientNotification(method, params) ==
    /\ document_versions' = on_client_notification(document_versions, method, params)
    /\ ret' = [op |-> "on_client_notification", method |-> method, params |-> params,
               before |-> document_versions]
    /\ UNCHANGED <<data_cookies, data_cookie_counter, name, caps, cookie,
                   aggregate, agg_method, agg_count, stash_log>>

GetNotifAggregationKey(method, payload) ==
    /\ ret' = [op |-> "get_notif_aggregation_key", method |-> method,
               payload |-> payload,
               result |-> get_notif_aggregation_key(document_versions, method, payload)]
    /\ UNCHANGED <<document_versions, data_cookies, data_cookie_counter, name,
                   caps, cookie, aggregate, agg_method, agg_count, stash_log>>

InitNotif ==
    /\ InitLogic
    /\ InitServers
    /\ InitAggregate
    /\ ret = [op |-> "none"]

DoClientNotification ==
    \E method \in NotifMethods, params \in NotifParams :
        ClientNotification(method, params)

DoGetNotifAggregationKey ==
    \E method \in KeyMethods, payload \in DiagKeyPayloads :
        GetNotifAggregationKey(method, payload)

NextNotif ==
    \/ DoClientNotification
    \/ DoGetNotifAggregationKey

SpecNotif == InitNotif /\ [][NextNotif]_vars

----------------------------------------------------------------------------
(* Claims on the aggregation key *)

IsDiagKeyCall ==
    /\ ret.op = "get_notif_aggregation_key"
    /\ ret.method = "textDocument/publishDiagnostics"

RetUri == GetOr(ret.payload, "uri", JStr("")).str
RetVersion == Get(ret.payload, "version")

StaleCall ==
    /\ IsDiagKeyCall
    /\ RetUri \in DOMAIN document_versions
    /\ ~IsNone(RetVersion)
    /\ RetVersion.int < document_versions[RetUri].int

\* C1: for a tracked URI, a publishDiagnostics payload whose explicit version
\* is strictly below the tracked version gets the drop signal, never a key.
C1_StaleDiagnosticsDropped == StaleCall => ret.result = Drop

C1_Witness == StaleCall /\ ret.result = Drop

TrackedOrZero(uri) ==
    IF uri \in DOMAIN document_versions THEN document_versions[uri] ELSE JInt(0)

VersionlessCall == IsDiagKeyCall /\ "version" \notin DOMAIN ret.payload

\* C6: a publishDiagnostics payload without a version gets the key
\* ('notification', method, uri, v), v being the tracked version of the URI
\* or 0 when the URI is untracked; never drop, never None.
C6_VersionlessKeyUsesTracked ==
    VersionlessCall =>
        ret.result = <<"notification", ret.method, JStr(RetUri), TrackedOrZero(RetUri)>>

C6_Witness ==
    /\ VersionlessCall
    /\ RetUri \in DOMAIN document_versions
    /\ document_versions[RetUri].int > 0
    /\ ret.result[4] = document_versions[RetUri]

----------------------------------------------------------------------------------------------------------------------------------------
(* Server replies and client requests *)

\* The opaque data servers attach to code actions; the first looks like a token
Data1 == JStr("rassumfrassum-1")
Data2 == JObj([id |-> JInt(7)])

\* Code actions: empty, without a data field, with a data field
EmptyAction == JObj(EmptyDict)
PlainAction == JObj([title |-> JStr("fix")])
DataAction(d) == JObj([title |-> JStr("fix"), data |-> d])

\* codeAction replies: null, no action, one action, several actions
CodeActionPayloads ==
    { JNull,
      JList(<<>>),
      JList(<<DataAction(Data1)>>),
      JList(<<EmptyAction, DataAction(Data2), PlainAction, DataAction(Data1)>>) }

InitializeA ==
    JObj([capabilities |-> JObj([codeActionProvider |-> JBool(TRUE),
                                 renameProvider |-> JBool(TRUE)]),
          serverInfo |-> JObj([name |-> JStr("a")])])

InitializeB ==
    JObj([capabilities |-> JObj([codeActionProvider |-> JObj([resolveProvider |-> JBool(TRUE)]),
                                 renameProvider |-> JBool(FALSE),
                                 documentFormattingProvider |-> JBool(TRUE),
                                 documentRangeFormattingProvider |-> JObj(EmptyDict)])])

InitializeC == JObj([serverInfo |-> JObj([version |-> JStr("1")])])

InitializePayloads == {JNull, JObj(EmptyDict), InitializeA, InitializeB, InitializeC}

\* The (token, data, server) triples a reply gave rise to, read off the reply
\* before and after on_server_response when the counter has moved
Issued(before, after, server, stashed) ==
    IF ~stashed THEN <<>>
    ELSE LET idx == SelectSeq([i \in 1 .. Len(before.list) |-> i],
                              LAMBDA i : HasData(before.list[i]))
         IN  [k \in 1 .. Len(idx) |->
                [token |-> after.list[idx[k]].obj["data"],
                 data |-> before.list[idx[k]].obj["data"],
                 server |-> server]]

\* How many items of a reply carry a data field
DataItems(payload) ==
    IF IsList(payload)
    THEN Cardinality({i \in 1 .. Len(payload.list) : HasData(payload.list[i])})
    ELSE 0

OnServerResponse(method, response_payload, is_error, server) ==
    /\ data_cookie_counter + DataItems(response_payload) <= MaxCookies
    /\ LET e == on_server_response(data_cookies, data_cookie_counter,
                                   name[server], caps[server],
                                   method, response_payload, is_error, server)
       IN  /\ data_cookies' = e.cookies
           /\ data_cookie_counter' = e.counter
           /\ name' = [name EXCEPT ![server] = e.name]
           /\ caps' = [caps EXCEPT ![server] = e.caps]
           /\ stash_log' = stash_log \o Issued(response_payload, e.payload, server,
                                             e.counter # data_cookie_counter)
           /\ ret' = [op |-> "on_server_response", method |-> method,
                      payload |-> response_payload, is_error |-> is_error,
                      server |-> server, result |-> e.payload]
    /\ UNCHANGED <<document_versions, cookie, aggregate, agg_method, agg_count>>

\* Candidate server lists: no server twice, the primary first
CandidateLists ==
    {q \in UNION {[1 .. n -> Servers] : n \in 0 .. NumServers} :
        /\ \A i, j \in 1 .. Len(q) : q[i] = q[j] => i = j
        /\ q # <<>> => q[1] = primary_server}

ServersToRouteTo(method, params, servers) ==
    /\ LET r == servers_to_route_to(document_versions, data_cookies, caps,
                                   method, params, servers)
       IN  ret' = [op |-> "servers_to_route_to", method |-> method,
                   params |-> params, servers |-> servers,
                   result |-> r.result, params_out |-> r.params]
    /\ UNCHANGED <<document_versions, data_cookies, data_cookie_counter, name,
                   caps, cookie, aggregate, agg_method, agg_count, stash_log>>

InitSession ==
    /\ InitLogic
    /\ InitServers
    /\ InitAggregate
    /\ ret = [op |-> "none"]

----------------------------------------------------------------------------
(* SpecRoute: code action replies, the cookie table and request routing *)

\* Params of requests: none, without data, with data that is no string, with
\* the tokens the session can issue and one it cannot
ResolveParams ==
    {JNull, JObj([textDocument |-> JStr("a.py")]), JObj([data |-> JInt(7)])}
    \cup {JObj([data |-> JStr(CookieId(n))]) : n \in 1 .. MaxCookies + 1}

\* Requests (method, params); only a method ending in "resolve" looks at params
RouteCalls ==
    {<<"codeAction/resolve", p>> : p \in ResolveParams}
    \cup {<<m, JObj([data |-> JStr(CookieId(1))])>> :
            m \in {"initialize", "textDocument/codeAction", "textDocument/rename",
                   "textDocument/hover"}}

DoCodeActionResponse ==
    \E payload \in CodeActionPayloads, is_error \in BOOLEAN, server \in Servers :
        OnServerResponse("textDocument/codeAction", payload, is_error, server)

DoInitializeResponse ==
    \E server \in Servers :
        OnServerResponse("initialize", InitializeA, FALSE, server)

DoRouteRequest ==
    \E call \in RouteCalls, servers \in CandidateLists :
        ServersToRouteTo(call[1], call[2], servers)

NextRoute ==
    \/ DoCodeActionResponse
    \/ DoInitializeResponse
    \/ DoRouteRequest

SpecRoute == InitSession /\ [][NextRoute]_vars

----------------------------------------------------------------------------
(* SpecReply: replies of every kind, failed and empty ones included *)

DoInitializeOutcome ==
    \E payload \in {InitializeA, JObj(EmptyDict)}, is_error \in BOOLEAN,
       server \in Servers :
        OnServerResponse("initialize", payload, is_error, server)

\* A reply to a request of another method
DoHoverResponse ==
    \E is_error \in BOOLEAN, server \in Servers :
        OnServerResponse("textDocument/hover", JObj([contents |-> JStr("doc")]),
                         is_error, server)

NextReply ==
    \/ DoCodeActionResponse
    \/ DoInitializeOutcome
    \/ DoHoverResponse

SpecReply == InitSession /\ [][NextReply]_vars

----------------------------------------------------------------------------
(* SpecGate: documents opened and closed between replies and requests *)

GateCalls ==
    {<<"codeAction/resolve", JObj([data |-> JStr(CookieId(n))])>> : n \in 1 .. MaxCookies + 1}
    \cup {<<m, JObj([textDocument |-> JObj([uri |-> JStr("a.py")])])>> :
            m \in {"initialize", "textDocument/codeAction", "textDocument/rename",
                   "textDocument/hover"}}

DoOpenOrClose ==
    \E method \in {"textDocument/didOpen", "textDocument/didClose"} :
        ClientNotification(method,
                           [textDocument |-> JObj([uri |-> JStr("a.py"), version |-> JInt(2)])])

DoStashingResponse ==
    \E server \in Servers :
        OnServerResponse("textDocument/codeAction", JList(<<DataAction(Data2)>>),
                         FALSE, server)

DoAnnounceCapabilities ==
    \E server \in Servers :
        OnServerResponse("initialize", InitializeA, FALSE, server)

DoGatedRequest ==
    \E call \in GateCalls, servers \in CandidateLists :
        ServersToRouteTo(call[1], call[2], servers)

NextGate ==
    \/ DoOpenOrClose
    \/ DoStashingResponse
    \/ DoAnnounceCapabilities
    \/ DoGatedRequest

SpecGate == InitSession /\ [][NextGate]_vars

----------------------------------------------------------------------------
(* SpecCaps: initialize replies, server capabilities and request routing *)

CapsMethods ==
    {"initialize", "shutdown", "textDocument/codeAction", "textDocument/rename",
     "textDocument/formatting", "textDocument/rangeFormatting",
     "codeAction/resolve", "textDocument/hover"}

CapsParams == {JNull, JObj([data |-> JStr(CookieId(1))])}

DoInitializeReply ==
    \E payload \in InitializePayloads, is_error \in BOOLEAN, server \in Servers :
        OnServerResponse("initialize", payload, is_error, server)

DoRouteByCapability ==
    \E method \in CapsMethods, params \in CapsParams, servers \in CandidateLists :
        ServersToRouteTo(method, params, servers)

NextCaps ==
    \/ DoInitializeReply
    \/ DoRouteByCapability

SpecCaps == InitSession /\ [][NextCaps]_vars

----------------------------------------------------------------------------
(* Claims on routing and on the cookie table *)

Range(q) == {q[i] : i \in 1 .. Len(q)}

IsRouteCall == ret.op = "servers_to_route_to"

\* The last call was a resolve request whose params.data is v
ResolveCallWith(v) ==
    /\ IsRouteCall
    /\ EndsWith(ret.method, "resolve")
    /\ Truthy(ret.params)
    /\ "data" \in DOMAIN ret.params.obj
    /\ ret.params.obj["data"] = v

IsToken(v) == IsStr(v) /\ StartsWith(v.str, CookiePrefix)

\* C3: every data field a non-error codeAction reply of server S carried was
\* replaced by a token, and a later resolve request bearing that token is
\* routed to exactly [S], its params.data rewritten to the original data.
C3_StashRecoverRoundTrip ==
    \A i \in 1 .. Len(stash_log) :
        LET e == stash_log[i]
        IN  /\ IsToken(e.token)
            /\ ResolveCallWith(e.token) =>
                  /\ ret.result = <<e.server>>
                  /\ ret.params_out = JObj(Put(ret.params.obj, "data", e.data))

C3_Witness ==
    \E i \in 1 .. Len(stash_log) :
        /\ ResolveCallWith(stash_log[i].token)
        /\ stash_log[i].server # primary_server
        /\ primary_server \in Range(ret.servers)
        /\ Len(stash_log) > i
        /\ ret.result = <<stash_log[i].server>>
        /\ ret.params_out.obj["data"] = stash_log[i].data

\* C4 as stated: every server servers_to_route_to returns is one of the
\* candidates it was given.
C4_ResultWithinCandidates ==
    IsRouteCall => Range(ret.result) \subseteq Range(ret.servers)

\* C4, amended: every server servers_to_route_to returns is one of the
\* candidates it was given, except on cookie recovery, where the result is
\* the one server the token came from, a candidate or not.
C4_ResultWithinCandidatesOrOrigin ==
    IsRouteCall =>
        \/ Range(ret.result) \subseteq Range(ret.servers)
        \/ \E i \in 1 .. Len(stash_log) :
              /\ ResolveCallWith(stash_log[i].token)
              /\ ret.result = <<stash_log[i].server>>

C4_Witness ==
    /\ IsRouteCall
    /\ \E i \in 1 .. Len(stash_log) :
          /\ ResolveCallWith(stash_log[i].token)
          /\ stash_log[i].server # primary_server
    /\ ret.result # <<>>
    /\ Range(ret.result) \subseteq Range(ret.servers)

UnknownTokenCall ==
    /\ IsRouteCall
    /\ EndsWith(ret.method, "resolve")
    /\ Truthy(ret.params)
    /\ IsToken(Get(ret.params.obj, "data"))
    /\ ret.params.obj["data"].str \notin DOMAIN data_cookies
    /\ ret.servers # <<>>

\* C7: a resolve request whose params.data has the token prefix but is no key
\* of the cookie table goes to the primary server only, params untouched.
C7_UnknownTokenDefaultRoute ==
    UnknownTokenCall =>
        /\ ret.result = <<primary_server>>
        /\ ret.params_out = ret.params

C7_Witness ==
    /\ UnknownTokenCall
    /\ data_cookie_counter > 0
    /\ ret.result = <<primary_server>>

CookieTableMatchesCounter ==
    /\ Len(stash_log) = data_cookie_counter
    /\ Cardinality(DOMAIN data_cookies) = data_cookie_counter
    /\ \A i, j \in 1 .. Len(stash_log) :
          stash_log[i].token = stash_log[j].token => i = j
    /\ DOMAIN data_cookies = {stash_log[i].token.str : i \in 1 .. Len(stash_log)}

CookieStep ==
    /\ data_cookie_counter' >= data_cookie_counter
    /\ data_cookie_counter' - data_cookie_counter = Len(stash_log') - Len(stash_log)
    /\ \A t \in DOMAIN data_cookies :
          t \in DOMAIN data_cookies' /\ data_cookies'[t] = data_cookies[t]

\* C9: every token handed out differs from all tokens handed out before; the
\* counter never decreases and grows by one per stashed data field; the
\* cookie table has as many entries as the counter says and no entry of it
\* is ever overwritten.
C9_TokensUnique == [](CookieTableMatchesCounter) /\ [][CookieStep]_vars

C9_Witness ==
    /\ data_cookie_counter = 2
    /\ Len(stash_log) = 2
    /\ stash_log[1].token # stash_log[2].token
    /\ stash_log[1].data = stash_log[2].data

SingleTargetCall ==
    /\ IsRouteCall
    /\ ret.method \in {"textDocument/rename", "textDocument/formatting",
                       "textDocument/rangeFormatting"}

RequiredCap ==
    IF ret.method = "textDocument/rename" THEN "renameProvider"
    ELSE IF ret.method = "textDocument/formatting" THEN "documentFormattingProvider"
    ELSE "documentRangeFormattingProvider"

\* Positions of the candidates whose capability map marks RequiredCap truthy
Qualifying ==
    {i \in 1 .. Len(ret.servers) : Truthy(Get(caps[ret.servers[i]], RequiredCap))}

\* C10: rename, formatting and rangeFormatting go to the first candidate, in
\* candidate order, whose capability map marks the required capability
\* truthy, and to nobody when no candidate qualifies.
C10_SingleTargetFirstCapable ==
    SingleTargetCall =>
        IF Qualifying = {}
        THEN ret.result = <<>>
        ELSE \E i \in Qualifying :
                /\ \A j \in Qualifying : i <= j
                /\ ret.result = <<ret.servers[i]>>

C10_Witness ==
    /\ SingleTargetCall
    /\ primary_server \in Range(ret.servers)
    /\ "renameProvider" \in DOMAIN caps[primary_server]
    /\ Qualifying # {}
    /\ 1 \notin Qualifying
    /\ ret.result = <<ret.servers[2]>>

----------------------------------------------------------------------------
(* SpecAgg: building an aggregate out of the servers' contributions *)

MergePayloads ==
    { JObj([capabilities |-> JObj([textDocumentSync |-> JInt(1)]),
            serverInfo |-> JObj([name |-> JStr("x"), version |-> JStr("1")])]),
      JObj([capabilities |-> JObj([textDocumentSync |-> JInt(2),
                                   hoverProvider |-> JBool(TRUE)]),
            serverInfo |-> JObj([name |-> JStr("y")])]),
      JObj([capabilities |-> JObj([textDocumentSync |-> JObj([change |-> JInt(1)])])]),
      JObj([capabilities |-> JObj([textDocumentSync |-> JObj([change |-> JInt(2),
                                                             openClose |-> JBool(TRUE)]),
                                   hoverProvider |-> JObj([workDoneProgress |-> JBool(TRUE)])]),
            serverInfo |-> JObj([name |-> JStr("y"), version |-> JStr("2")])]),
      JObj([capabilities |-> JObj([hoverProvider |-> JBool(FALSE)])]),
      JObj([capabilities |-> JObj([hoverProvider |-> JNull,
                                   renameProvider |-> JBool(TRUE)])]),
      JObj(EmptyDict) }

Diagnostic1 == JObj([message |-> JStr("unused")])
Diagnostic2 == JObj([message |-> JStr("syntax"), source |-> JStr("lint")])

DiagPayloads ==
    { JObj([uri |-> JStr("a.py")]),
      JObj([uri |-> JStr("a.py"), diagnostics |-> JList(<<>>)]),
      JObj([uri |-> JStr("a.py"), diagnostics |-> JList(<<Diagnostic1>>)]),
      JObj([uri |-> JStr("a.py"), diagnostics |-> JList(<<Diagnostic2, Diagnostic1>>)]) }

ActionPayloads ==
    {JNull, JList(<<>>), JList(<<JObj([title |-> JStr("fix")])>>),
     JList(<<JObj([title |-> JStr("sort"), data |-> JStr(CookieId(1))])>>)}

\* The initialize replies that announce a serverInfo, and the empty one
InfoPayloads ==
    {p \in MergePayloads : p = JObj(EmptyDict) \/ "serverInfo" \in DOMAIN p.obj}

\* The payloads a server contributes, per method
Contributions ==
    {<<"initialize", p>> : p \in InfoPayloads}
    \cup {<<"textDocument/publishDiagnostics", p>> : p \in DiagPayloads}
    \cup {<<"textDocument/codeAction", p>> : p \in ActionPayloads}
    \cup {<<"shutdown", JNull>>}
    \cup {<<"textDocument/hover", JObj([contents |-> JStr("doc")])>>, <<"textDocument/hover", JNull>>}

AggregatePayloads(payload, source, is_error) ==
    /\ agg_count < MaxMerges
    /\ aggregate' = aggregate_payloads(name, caps, cookie, agg_method, aggregate,
                                       payload, source, is_error)
    /\ agg_count' = agg_count + 1
    /\ ret' = [op |-> "aggregate_payloads", method |-> agg_method,
               aggregate |-> aggregate, payload |-> payload, source |-> source,
               is_error |-> is_error, result |-> aggregate']
    /\ UNCHANGED <<document_versions, data_cookies, data_cookie_counter, name,
                   caps, cookie, agg_method, stash_log>>

ServerNotification(method, params, source) ==
    /\ ret' = [op |-> "on_server_notification", method |-> method,
               params |-> params, source |-> source,
               result |-> on_server_notification(method, params, name[source])]
    /\ UNCHANGED <<document_versions, data_cookies, data_cookie_counter, name,
                   caps, cookie, aggregate, agg_method, agg_count, stash_log>>

\* The scheduler starts an aggregate from the first reply it gets
InitAgg ==
    /\ InitLogic
    /\ InitServers
    /\ \E first \in Contributions :
          /\ agg_method = first[1]
          /\ aggregate = first[2]
    /\ agg_count = 0
    /\ ret = [op |-> "none"]

DoAggregate ==
    \E c \in Contributions, source \in Servers, is_error \in BOOLEAN :
        /\ c[1] = agg_method
        /\ AggregatePayloads(c[2], source, is_error)

\* A server announces its name in its initialize reply
DoIdentifyServer ==
    \E server \in Servers :
        OnServerResponse("initialize", JObj([serverInfo |-> JObj([name |-> JStr("x")])]),
                         FALSE, server)

\* A server publishes diagnostics, or sends another notification
DoServerNotification ==
    \E method \in KeyMethods, source \in Servers :
        ServerNotification(method,
                           [uri |-> JStr("a.py"),
                            diagnostics |-> JList(<<Diagnostic2, Diagnostic1>>)],
                           source)

NextAgg ==
    \/ DoAggregate
    \/ DoIdentifyServer
    \/ DoServerNotification

SpecAgg == InitAgg /\ [][NextAgg]_vars

----------------------------------------------------------------------------
(* SpecMerge: merging the servers' initialize replies *)

\* The aggregate starts as the first initialize reply
InitMerge ==
    /\ InitLogic
    /\ InitServers
    /\ agg_method = "initialize"
    /\ aggregate \in MergePayloads
    /\ agg_count = 0
    /\ ret = [op |-> "none"]

DoMergeInitialize ==
    \E payload \in MergePayloads, source \in Servers, is_error \in BOOLEAN :
        AggregatePayloads(payload, source, is_error)

NextMerge == DoMergeInitialize

SpecMerge == InitMerge /\ [][NextMerge]_vars

----------------------------------------------------------------------------
(* Claims on aggregation *)

\* The step merges a non-error initialize reply into the aggregate
MergeStep ==
    /\ ret'.op = "aggregate_payloads"
    /\ ret'.method = "initialize"
    /\ ~ret'.is_error

SyncOf(result) ==
    Get(GetOr(result.obj, "capabilities", JObj(EmptyDict)).obj, "textDocumentSync")

\* v is the bare sync mode k, or an object whose change field is k
DenotesSync(v, k) == v = JInt(k) \/ (IsDict(v) /\ Get(v.obj, "change") = JInt(k))

\* C2: once the aggregate's textDocumentSync denotes full sync, merging a
\* reply whose textDocumentSync denotes partial sync leaves it denoting full
\* sync, whatever the shapes (bare or structured) on either side.
C2_FullSyncNeverDowngraded ==
    [][(/\ MergeStep
        /\ DenotesSync(SyncOf(aggregate), 1)
        /\ DenotesSync(SyncOf(ret'.payload), 2))
       => DenotesSync(SyncOf(aggregate'), 1)]_vars

InfoField(result, f) ==
    GetOr(GetOr(result.obj, "serverInfo", JObj(EmptyDict)).obj, f, JStr("")).str

Separator(f) == IF f = "name" THEN "+" ELSE ","

\* C5: in the serverInfo merge, when the aggregate's and the reply's field
\* are both non-empty, the reply's value goes before the aggregate's exactly
\* when the reply's source is the primary server itself, and after otherwise.
C5_PrimaryFirstByIdentity ==
    [][MergeStep =>
        \A f \in {"name", "version"} :
            LET cur == InfoField(aggregate, f)
                new == InfoField(ret'.payload, f)
            IN  (cur # "" /\ new # "") =>
                   InfoField(aggregate', f) =
                      IF ret'.source = primary_server
                      THEN new \o Separator(f) \o cur
                      ELSE cur \o Separator(f) \o new]_vars

\* C8: aggregate_payloads called with is_error true returns the aggregate it
\* was given, whatever the method, payload and source.
C8_ErrorLeavesAggregate ==
    [][(ret'.op = "aggregate_payloads" /\ ret'.is_error) => aggregate' = aggregate]_vars

C8_Witness ==
    /\ ret.op = "aggregate_payloads"
    /\ ret.is_error
    /\ ret.method = "textDocument/codeAction"
    /\ Truthy(ret.payload)
    /\ Truthy(aggregate)
    /\ agg_count = 2
    /\ ret.result = aggregate

CapsOf(result) == GetOr(result.obj, "capabilities", JObj(EmptyDict)).obj

IsMergeCall ==
    /\ ret.op = "aggregate_payloads"
    /\ ret.method = "initialize"
    /\ ~ret.is_error

\* C11: when the reply's textDocumentSync denotes full sync (bare 1, or an
\* object whose change field is 1), the aggregate's textDocumentSync after
\* the merge is the reply's value, whatever the aggregate held before.
C11_FullSyncOverrides ==
    (IsMergeCall /\ DenotesSync(SyncOf(ret.payload), 1))
        => SyncOf(aggregate) = SyncOf(ret.payload)

C11_Witness ==
    /\ IsMergeCall
    /\ DenotesSync(SyncOf(ret.payload), 1)
    /\ DenotesSync(SyncOf(ret.aggregate), 2)
    /\ IsDict(SyncOf(ret.aggregate))
    /\ SyncOf(aggregate) = JInt(1)

\* C12: a capability that is missing from the aggregate, or null in it, is
\* adopted from the reply with exactly the reply's value; a truthy scalar
\* then is truthy in the aggregate.
C12_MissingCapabilityAdopted ==
    IsMergeCall =>
        \A cap \in DOMAIN CapsOf(ret.payload) :
            IsNone(Get(CapsOf(ret.aggregate), cap)) =>
                /\ cap \in DOMAIN CapsOf(aggregate)
                /\ CapsOf(aggregate)[cap] = CapsOf(ret.payload)[cap]

C12_Witness ==
    /\ IsMergeCall
    /\ "capabilities" \in DOMAIN ret.aggregate.obj
    /\ "hoverProvider" \notin DOMAIN CapsOf(ret.aggregate)
    /\ Get(CapsOf(ret.payload), "hoverProvider") = JBool(TRUE)
    /\ Truthy(CapsOf(aggregate)["hoverProvider"])

\* C20: no merge removes a capability key from the aggregate, and for every
\* capability but textDocumentSync a non-null scalar the aggregate holds
\* (false included) survives the merge of a reply whose value is a scalar.
C20_LeftBiasedScalars ==
    (ret.op = "aggregate_payloads" /\ ret.method = "initialize") =>
        /\ DOMAIN CapsOf(ret.aggregate) \subseteq DOMAIN CapsOf(aggregate)
        /\ ~ret.is_error =>
              \A cap \in DOMAIN CapsOf(ret.aggregate) \cap DOMAIN CapsOf(ret.payload) :
                  (/\ cap # "textDocumentSync"
                   /\ ~IsNone(CapsOf(ret.aggregate)[cap])
                   /\ is_scalar(CapsOf(ret.aggregate)[cap])
                   /\ is_scalar(CapsOf(ret.payload)[cap]))
                  => CapsOf(aggregate)[cap] = CapsOf(ret.aggregate)[cap]

C20_Witness ==
    /\ IsMergeCall
    /\ Get(CapsOf(ret.aggregate), "hoverProvider") = JBool(FALSE)
    /\ Get(CapsOf(ret.payload), "hoverProvider") = JBool(TRUE)
    /\ CapsOf(aggregate)["hoverProvider"] = JBool(FALSE)
    /\ agg_count = 2

DiagsOf(result) == GetOr(result.obj, "diagnostics", JList(<<>>)).list

\* new, with the source's name on the diagnostics that carry no source
Attributed(new, source) ==
    [j \in 1 .. Len(new) |->
        IF "source" \in DOMAIN new[j].obj THEN new[j]
        ELSE JObj([k \in DOMAIN new[j].obj \cup {"source"} |->
                     IF k = "source" THEN JStr(name[source]) ELSE new[j].obj[k]])]

IsDiagAggCall ==
    /\ ret.op = "aggregate_payloads"
    /\ ret.method = "textDocument/publishDiagnostics"

\* C15: merging a publishDiagnostics contribution appends its diagnostics, in
\* their order and each once, to the diagnostics the aggregate had; an error
\* contribution appends nothing; an appended diagnostic without a source gets
\* the contributing server's name and one with a source keeps it (the same
\* attribution on_server_notification applies).
C15_DiagnosticsAppendedInOrder ==
    /\ IsDiagAggCall =>
          LET old == DiagsOf(ret.aggregate)
              new == DiagsOf(ret.payload)
              res == DiagsOf(aggregate)
          IN  IF ret.is_error THEN res = old
              ELSE /\ Len(res) = Len(old) + Len(new)
                   /\ SubSeq(res, 1, Len(old)) = old
                   /\ SubSeq(res, Len(old) + 1, Len(res)) = Attributed(new, ret.source)
    /\ (ret.op = "on_server_notification"
        /\ ret.method = "textDocument/publishDiagnostics") =>
          DiagsOf(JObj(ret.result)) = Attributed(DiagsOf(JObj(ret.params)), ret.source)

C15_Witness ==
    /\ IsDiagAggCall
    /\ ~ret.is_error
    /\ agg_count = 2
    /\ name[ret.source] = "x"
    /\ Len(DiagsOf(ret.aggregate)) = 3
    /\ Len(DiagsOf(ret.payload)) = 2
    /\ Len(DiagsOf(aggregate)) = 5
    /\ aggregate.obj["diagnostics"].list[5].obj["source"] = JStr("x")
    /\ aggregate.obj["diagnostics"].list[4].obj["source"] = JStr("lint")
    /\ aggregate.obj["diagnostics"].list[3].obj["source"] = JStr("s2")

----------------------------------------------------------------------------
(* Claims on capabilities and routing by capability *)

IsInitializeReply == ret.op = "on_server_response" /\ ret.method = "initialize"

\* The step is an initialize reply that on_server_response post-processes
EffectiveInitializeReply ==
    /\ ret'.op = "on_server_response"
    /\ ret'.method = "initialize"
    /\ ~ret'.is_error
    /\ ret'.payload \notin {JNull, JObj(EmptyDict)}

\* q keeps the order of the candidate list and names no server twice
InCandidateOrder(q, servers) ==
    \A i, j \in 1 .. Len(q) :
        i < j => \E a, b \in 1 .. Len(servers) :
                    a < b /\ servers[a] = q[i] /\ servers[b] = q[j]

\* C13: a non-error, non-empty initialize reply replaces the replying
\* server's capability map by the reply's capabilities (the empty map if it
\* has none) and nothing else changes a capability map; and a
\* textDocument/codeAction request is routed to exactly the candidates whose
\* current map marks codeActionProvider truthy, in candidate order.
C13_CapsReplacedAndCodeActionRouted ==
    /\ [](\A s \in Servers : ret.op = "none" => caps[s] = EmptyDict)
    /\ [][\A s \in Servers :
            caps'[s] = IF EffectiveInitializeReply /\ s = ret'.server
                       THEN CapsOf(ret'.payload)
                       ELSE caps[s]]_vars
    /\ []((IsRouteCall /\ ret.method = "textDocument/codeAction") =>
            /\ Range(ret.result) =
                  {s \in Range(ret.servers) :
                      /\ "codeActionProvider" \in DOMAIN caps[s]
                      /\ Truthy(caps[s]["codeActionProvider"])}
            /\ InCandidateOrder(ret.result, ret.servers)
            /\ ret.params_out = ret.params)

\* The primary announced capabilities, then replied again with none; the
\* code action request goes to the other server only
C13_Witness ==
    /\ IsRouteCall
    /\ ret.method = "textDocument/codeAction"
    /\ name[primary_server] = "a"
    /\ caps[primary_server] = EmptyDict
    /\ ret.servers = <<1, 2>>
    /\ ret.result = <<2>>
    /\ "renameProvider" \in DOMAIN caps[2]

----------------------------------------------------------------------------
(* Claims on the document version table *)

IsClientNotification == ret.op = "on_client_notification"

RetTextDoc == GetOr(ret.params, "textDocument", JObj(EmptyDict)).obj

\* The last notification names the URI u
Names(u) == "uri" \in DOMAIN RetTextDoc /\ RetTextDoc["uri"] = JStr(u)

\* The last notification is a didOpen/didChange carrying u and a version
Sets(u) ==
    /\ ret.method \in {"textDocument/didOpen", "textDocument/didChange"}
    /\ Names(u)
    /\ "version" \in DOMAIN RetTextDoc

\* The last notification is a didClose carrying u
Closes(u) == ret.method = "textDocument/didClose" /\ Names(u)

SameEntry(u, dv1, dv2) ==
    /\ u \in DOMAIN dv1 <=> u \in DOMAIN dv2
    /\ u \in DOMAIN dv1 => dv1[u] = dv2[u]

\* C14: the table starts empty; a didOpen/didChange carrying uri and version
\* sets the URI's entry to that version, also when it is lower than the
\* entry; a didClose carrying the uri removes the entry; every other
\* notification, and every other operation, leaves each entry as it was. So
\* an entry is there exactly when the last effective notification for its
\* URI set it, and holds the version that notification carried.
C14_VersionTableFollowsClient ==
    /\ [](ret.op = "none" => document_versions = EmptyDict)
    /\ [](DOMAIN document_versions \subseteq Uris)
    /\ [](IsClientNotification =>
            \A u \in Uris :
                IF Sets(u)
                THEN /\ u \in DOMAIN document_versions
                     /\ document_versions[u] = RetTextDoc["version"]
                ELSE IF Closes(u)
                THEN u \notin DOMAIN document_versions
                ELSE SameEntry(u, ret.before, document_versions))
    /\ [][IF ret'.op = "on_client_notification"
          THEN ret'.before = document_versions
          ELSE document_versions' = document_versions]_vars

\* A didChange lowered the tracked version of a.py from 2 to 0
C14_Witness ==
    /\ IsClientNotification
    /\ ret.method = "textDocument/didChange"
    /\ Sets("a.py")
    /\ "a.py" \in DOMAIN ret.before
    /\ ret.before["a.py"] = JInt(2)
    /\ document_versions = [x \in {"a.py"} |-> JInt(0)]

----------------------------------------------------------------------------
(* Claims on keys across notifications *)

\* The tables on_client_notification can build: any URIs, any versions
VersionTables ==
    UNION {[D -> {JInt(v) : v \in Versions}] : D \in SUBSET Uris}

PayloadUri(payload) == GetOr(payload, "uri", JStr("")).str

\* The explicit version, else the tracked one, else 0
ResolvedVersion(dv, payload) ==
    IF "version" \in DOMAIN payload THEN payload["version"]
    ELSE IF PayloadUri(payload) \in DOMAIN dv THEN dv[PayloadUri(payload)]
    ELSE JInt(0)

\* C16: a publishDiagnostics notification that gets a key shares it with
\* another one, keyed under any version table the client can have built by
\* then, only if both name the same URI and have the same resolved version;
\* every method other than publishDiagnostics gets no key.
C16_VersionsNeverMix ==
    /\ document_versions \in VersionTables
    /\ (ret.op = "get_notif_aggregation_key"
        /\ ret.method # "textDocument/publishDiagnostics") => ret.result = NoKey
    /\ (IsDiagKeyCall /\ ret.result # Drop) =>
          /\ ret.result # NoKey
          /\ \A dv2 \in VersionTables, p2 \in DiagKeyPayloads :
                get_notif_aggregation_key(dv2, ret.method, p2) = ret.result =>
                   /\ PayloadUri(p2) = RetUri
                   /\ ResolvedVersion(dv2, p2) =
                         ResolvedVersion(document_versions, ret.payload)

\* A versionless notification keyed under the tracked version 2 shares its
\* key with one that carries version 2 for an untracked URI
C16_Witness ==
    /\ IsDiagKeyCall
    /\ ret.payload = [uri |-> JStr("b.py")]
    /\ "b.py" \in DOMAIN document_versions
    /\ document_versions["b.py"] = JInt(2)
    /\ ret.result = get_notif_aggregation_key(EmptyDict, ret.method,
                                              [uri |-> JStr("b.py"), version |-> JInt(2)])

----------------------------------------------------------------------------
(* Claims on replies that are not post-processed *)

\* The step is a reply that is an error, or whose payload is null or empty
SkippedReply ==
    /\ ret'.op = "on_server_response"
    /\ \/ ret'.is_error
       \/ ret'.payload \in {JNull, JList(<<>>), JObj(EmptyDict)}

\* The step is a codeAction reply that is post-processed
StashingReply ==
    /\ ret'.op = "on_server_response"
    /\ ret'.method = "textDocument/codeAction"
    /\ ~SkippedReply

CarriesData(item) == item # JObj(EmptyDict) /\ "data" \in DOMAIN item.obj

\* C17: a reply that is an error, or whose payload is null or empty, leaves
\* the cookie table, the counter, the payload and every server's name and
\* capabilities as they were, whatever the method; in a codeAction reply
\* that is post-processed, the items that are empty or have no data field
\* stay as they are and the counter grows by the number of the others.
C17_SkippedRepliesChangeNothing ==
    /\ [][SkippedReply =>
            /\ UNCHANGED <<data_cookies, data_cookie_counter, name, caps, stash_log>>
            /\ ret'.result = ret'.payload]_vars
    /\ [][StashingReply =>
            LET before == ret'.payload.list
                after == ret'.result.list
                kept == {i \in 1 .. Len(before) : ~CarriesData(before[i])}
            IN  /\ Len(after) = Len(before)
                /\ \A i \in kept : after[i] = before[i]
                /\ data_cookie_counter' - data_cookie_counter
                      = Len(before) - Cardinality(kept)
                /\ UNCHANGED <<name, caps>>]_vars

\* An empty initialize reply reached a server that had announced its
\* capabilities and stashed data: all of it is still there
C17_Witness ==
    /\ ret.op = "on_server_response"
    /\ ret.method = "initialize"
    /\ ret.payload = JObj(EmptyDict)
    /\ name[ret.server] = "a"
    /\ "codeActionProvider" \in DOMAIN caps[ret.server]
    /\ data_cookie_counter = 2
    /\ \E t \in DOMAIN data_cookies : data_cookies[t].server = ret.server

----------------------------------------------------------------------------
(* Claims on what routing reads and writes *)

\* C18: whatever the document version table holds, servers_to_route_to
\* returns the same servers and rewrites params the same way for the same
\* cookie table, capabilities, method, params and candidates; and the call
\* changes neither the version table, the cookie table, the counter nor any
\* server's name or capabilities.
C18_VersionTableDoesNotGate ==
    /\ [](document_versions \in VersionTables)
    /\ [](IsRouteCall =>
            \A dv2 \in VersionTables :
                servers_to_route_to(dv2, data_cookies, caps,
                                    ret.method, ret.params, ret.servers)
                   = Routing(ret.result, ret.params_out))
    /\ [][ret'.op = "servers_to_route_to" =>
            UNCHANGED <<document_versions, data_cookies, data_cookie_counter,
                        name, caps, stash_log>>]_vars

\* A resolve request is sent back to its origin, its data restored, while
\* a.py is open at version 2
C18_Witness ==
    /\ IsRouteCall
    /\ document_versions = [x \in {"a.py"} |-> JInt(2)]
    /\ EndsWith(ret.method, "resolve")
    /\ ret.servers = <<1>>
    /\ ret.result = <<2>>
    /\ ret.params_out = JObj([data |-> Data2])
    /\ ret.params # ret.params_out

----------------------------------------------------------------------------
(* Claims on requests that go to one server *)

\* The last call routed a request that is neither broadcast nor a code action
UnicastCall ==
    /\ IsRouteCall
    /\ ret.method \notin {"initialize", "shutdown", "textDocument/codeAction"}

\* C19: a request of a method other than initialize, shutdown and
\* textDocument/codeAction is routed to at most one server, and to none only
\* when there is no candidate or when the method is a single-target
\* capability route and no candidate has the capability.
C19_AtMostOneServer ==
    UnicastCall =>
        /\ Len(ret.result) <= 1
        /\ ret.result = <<>> =>
              \/ ret.servers = <<>>
              \/ SingleTargetCall /\ Qualifying = {}

\* With two candidates a hover request reaches the primary alone and a
\* resolve request bearing a token reaches the token's origin alone
C19_Witness ==
    /\ UnicastCall
    /\ ret.servers = <<1, 2>>
    /\ Len(ret.result) = 1
    /\ \/ ret.method = "textDocument/hover" /\ ret.result = <<primary_server>>
       \/ ret.method = "codeAction/resolve" /\ ret.result = <<2>>
    /\ data_cookie_counter > 0
    /\ caps[2] # EmptyDict

====
